---- MODULE Spec2Model ----
(***************************************************************************)
(* RPGMakerScraper: the command decoding and access-classification pass.   *)
(* One run = RPGMakerScraper(mode, id) { load(); } followed by scrape().   *)
(* The project data (pages, conditions, commands, common events) is read   *)
(* by the pass one record at a time; the model draws each record when the  *)
(* pass reaches it.                                                        *)
(***************************************************************************)
EXTENDS Integers, Sequences, FiniteSets, TLC

VARIABLES
    pc,                     \* position of the run: load, maps, common, done, caught,
                            \* crashed; gate_called / matcher_called after one call
                            \* observed alone
    mode,                   \* RPGMakerScraper::mode
    query_id,               \* RPGMakerScraper::query_id
    variable_names,         \* RPGMakerScraper::variable_names (id -> name, sparse)
    switch_names,           \* RPGMakerScraper::switch_names   (id -> name, sparse)
    heap,                   \* the result records allocated by make_shared, by reference
    results,                \* RPGMakerScraper::results: map id -> sequence of references
    common_event_results,   \* RPGMakerScraper::common_event_results: id -> references
    cur,                    \* result_info of the page being scanned (a reference, 0 = none)
    map_id, event_id,       \* container and event the scan is in
    page_num,               \* pages begun so far in the current event
    line_num,               \* commands read so far in the current page / common event
    pages_read,             \* event pages read so far in the whole pass
    lines_read,             \* commands read so far in the whole pass
    common_read,            \* common events read so far
    common_event,           \* the CommonEvent being scanned
    page,                   \* the Condition handed to the last observed gate call
    command,                \* the Command handed to the last observed matcher call
    outcome,                \* what the last gate / matcher call did
    missing,                \* the project files that are missing or unreadable
    load_steps,             \* the steps load() has run, in order
    fault,                  \* what() of the exception main caught, "none" if none
    json                    \* the JSON value the observed record was decoded from, if any

vars == <<pc, mode, query_id, variable_names, switch_names, heap, results,
          common_event_results, cur, map_id, event_id, page_num, line_num,
          pages_read, common_read, common_event, page, command, outcome,
          missing, load_steps, fault, lines_read, json>>

----------------------------------------------------------------------------
(* Bounds of the model. *)

MaxId     == 4    \* ids in conditions and commands range over 0..MaxId
MaxQuery  == 2    \* query ids range over 0..MaxQuery
MaxPages  == 1    \* event pages read in one pass
MaxLines  == 2    \* commands read in one pass
MaxCommon == 2    \* common events read in one pass

Ids == 0 .. MaxId

----------------------------------------------------------------------------
(* Enumerations of rpgmaker_types.hpp and rpgmaker_scraper.hpp. *)

IF_STATEMENT       == 111
CONTROL_SWITCH     == 121
CONTROL_VARIABLE   == 122
SCRIPT_SINGLE_LINE == 355
SCRIPT_MULTI_LINE  == 655

IDType_SWITCH   == 0
IDType_VARIABLE == 1
IDType_SCRIPT   == 12

CompareType_CONSTANT == 0
CompareType_VARIABLE == 1

Operand_CONSTANT  == 0
Operand_VARIABLE  == 1
Operand_RANDOM    == 2
Operand_GAME_DATA == 3
Operand_SCRIPT    == 4

Trigger_NONE     == 0
Trigger_AUTORUN  == 1
Trigger_PARALLEL == 2

AccessType == {"NONE", "READ", "WRITE", "READWRITE"}
ScrapeMode == {"VARIABLES", "SWITCHES"}

(* variable_element = std::variant<uint32_t, double, bool, char, std::string> *)
U(n) == [t |-> "uint",   v |-> n]
D(n) == [t |-> "double", v |-> n]
B(b) == [t |-> "bool",   v |-> b]
C(c) == [t |-> "char",   v |-> c]
S(s) == [t |-> "string", v |-> s]

(* A default-constructed ResultInformationBase / MapEventResult.            *)
(* line_number is the std::optional: <<>> is nullopt, <<n>> holds n.        *)
FreshResult ==
    [access_type |-> "NONE", name |-> "", active |-> FALSE, line_number |-> <<>>,
     formatted_action |-> "", event_page |-> 0, event_id |-> 0]

----------------------------------------------------------------------------
(* Text.  A script line is a sequence of atoms: the four accessor/mutator   *)
(* prefixes, decimal digits and punctuation.  std::string::find is a        *)
(* substring search over the atoms.                                         *)

Digit(d) == CASE d = 0 -> "0" [] d = 1 -> "1" [] d = 2 -> "2" [] d = 3 -> "3"
              [] d = 4 -> "4" [] d = 5 -> "5" [] d = 6 -> "6" [] d = 7 -> "7"
              [] d = 8 -> "8" [] d = 9 -> "9"

RECURSIVE Digits(_)
Digits(n) == IF n < 10 THEN <<Digit(n)>> ELSE Digits(n \div 10) \o <<Digit(n % 10)>>

(* snprintf "%d" given a uint32_t: the decimal digits of the value, for    *)
(* every value below 2^31 (all values of the model are).                    *)
format_d(n) == ToString(n)

RECURSIVE Join(_)
Join(atoms) == IF atoms = <<>> THEN "" ELSE Head(atoms) \o Join(Tail(atoms))

find(text, pat) ==
    \E i \in 1 .. (Len(text) - Len(pat) + 1) : SubSeq(text, i, i + Len(pat) - 1) = pat

----------------------------------------------------------------------------
(* Name tables. std::optional<std::string> is <<>> (nullopt) or <<name>>.   *)

(* The lookup without the test for the reserved id 0. *)
VariableLookup_zero_allowed(names, id) ==
    IF DOMAIN names = {} \/ id \notin DOMAIN names
    THEN <<>>
    ELSE IF names[id] = "" THEN <<"#" \o ToString(id)>>
         ELSE <<names[id]>>

(* The lookup without the "#id" of a present but empty name. *)
VariableLookup_empty_name_kept(names, id) ==
    IF id = 0 \/ DOMAIN names = {} \/ id \notin DOMAIN names
    THEN <<>>
    ELSE <<names[id]>>

VariableLookup(names, id) ==
    IF id = 0 \/ DOMAIN names = {} \/ id \notin DOMAIN names
    THEN <<>>
    ELSE IF names[id] = "" THEN <<"#" \o ToString(id)>>
         ELSE <<names[id]>>

SwitchLookup(names, id) ==
    IF DOMAIN names = {} THEN <<>>
    ELSE IF id \notin DOMAIN names THEN <<"#" \o ToString(id) \o " ?">>
    ELSE IF names[id] = "" THEN <<"#" \o ToString(id)>>
         ELSE <<names[id]>>

get_variable_name(id) == VariableLookup(variable_names, id)

(* The name of the query id, whatever id is asked for. *)
get_switch_name_of_query(id) == SwitchLookup(switch_names, query_id)

get_switch_name(id) == SwitchLookup(switch_names, id)

----------------------------------------------------------------------------
(* Undefined behaviour.  Reading parameters[i] past the end of the vector   *)
(* and calling ->data() on an empty optional have no defined result: the    *)
(* run crashes, or goes on with an arbitrary value.  ub is the outcome the  *)
(* build produces: ub.crash, or the value ub.p / the text ub.s.             *)

UBOutcomes ==
    {[crash |-> TRUE,  p |-> U(0), s |-> ""],
     [crash |-> FALSE, p |-> U(0), s |-> ""],
     [crash |-> FALSE, p |-> U(5), s |-> "<garbage>"],
     [crash |-> FALSE, p |-> C("x"), s |-> "<garbage>"]}

Ok(x)  == [st |-> "ok", v |-> x]
Raise  == [st |-> "raise"]     \* std::bad_variant_access leaves the matcher
Crash  == [st |-> "crash"]     \* undefined behaviour ended the process

(* command.parameters[i] (0-based), operator[] without a bounds check *)
Param(parameters, i, ub) ==
    IF i + 1 <= Len(parameters) THEN Ok(parameters[i + 1])
    ELSE IF ub.crash THEN Crash ELSE Ok(ub.p)

(* std::get<T>(parameters[i]) *)
Get(tag, parameters, i, ub) ==
    LET e == Param(parameters, i, ub) IN
    IF e.st # "ok" THEN e
    ELSE IF e.v.t = tag THEN Ok(e.v.v) ELSE Raise

(* opt->data() *)
Data(opt, ub) ==
    IF opt # <<>> THEN Ok(opt[1])
    ELSE IF ub.crash THEN Crash ELSE Ok(ub.s)

(* What a matcher hands back: it returned true (accept) or false (decline), *)
(* or did not return; rec is result_info as the matcher left it.            *)
Accept(rec)  == [st |-> "accept", rec |-> rec]
Decline(rec) == [st |-> "decline", rec |-> rec]
Fail(e, rec) == [st |-> e.st, rec |-> rec]

----------------------------------------------------------------------------
(* Script matcher *)

ReadPattern ==
    IF mode = "VARIABLES" THEN <<"$gameVariables.value(">> \o Digits(query_id) \o <<")">>
    ELSE <<"$gameSwitches.value(">> \o Digits(query_id) \o <<")">>

WritePattern ==
    IF mode = "VARIABLES" THEN <<"$gameVariables.setValue(">> \o Digits(query_id)
    ELSE <<"$gameSwitches.setValue(">> \o Digits(query_id)

(* The search with the write mutator tried before the read accessor. *)
determine_access_from_script_write_first(rec, script_line) ==
    IF find(script_line, WritePattern)
    THEN Accept([rec EXCEPT !.access_type = "WRITE", !.active = TRUE,
                            !.formatted_action = Join(script_line)])
    ELSE IF find(script_line, ReadPattern)
    THEN Accept([rec EXCEPT !.access_type = "READ", !.active = TRUE,
                            !.formatted_action = Join(script_line)])
    ELSE Decline(rec)

determine_access_from_script(rec, script_line) ==
    IF find(script_line, ReadPattern)
    THEN Accept([rec EXCEPT !.access_type = "READ", !.active = TRUE,
                            !.formatted_action = Join(script_line)])
    ELSE IF find(script_line, WritePattern)
    THEN Accept([rec EXCEPT !.access_type = "WRITE", !.active = TRUE,
                            !.formatted_action = Join(script_line)])
    ELSE Decline(rec)

scrape_command_script(rec, cmd, ub) ==
    IF Len(cmd.parameters) # 1 THEN Decline(rec)
    ELSE IF cmd.parameters[1].t # "string" THEN Decline(rec)
    ELSE determine_access_from_script(rec, cmd.parameters[1].v)

----------------------------------------------------------------------------
(* Condition gate of an event page *)

(* The stored text of the query id, without the "#id" of an empty name. *)
variable_name_as_stored == variable_names[query_id]

variable_name == get_variable_name(query_id)[1]   \* set by load() in VARIABLES mode

format_event_page_condition(condition, ub) ==
    IF mode = "VARIABLES"
    THEN Ok("IF {" \o variable_name \o "} >= " \o format_d(condition.variable_value) \o ":")
    ELSE LET n1 == Data(get_switch_name(condition.switch1_id), ub)
             n2 == Data(get_switch_name(condition.switch2_id), ub) IN
         IF condition.switch1_valid /\ condition.switch2_valid
         THEN IF n1.st # "ok" THEN n1 ELSE IF n2.st # "ok" THEN n2
              ELSE Ok("IF {" \o n1.v \o "} && {" \o n2.v \o "}:")
         ELSE IF condition.switch1_valid
         THEN IF n1.st # "ok" THEN n1 ELSE Ok("IF {" \o n1.v \o "}:")
         ELSE IF condition.switch2_valid
         THEN IF n2.st # "ok" THEN n2 ELSE Ok("IF {" \o n2.v \o "}:")
         ELSE Ok("IF :")

scrape_event_page_condition(rec, conditions, ub) ==
    LET act == IF mode = "VARIABLES" THEN conditions.variable_valid
               ELSE conditions.switch1_valid \/ conditions.switch2_valid
        f   == format_event_page_condition(conditions, ub)
        r1  == [rec EXCEPT !.active = act, !.access_type = "READ"]
    IN
    IF mode = "VARIABLES" /\ conditions.variable_id # query_id THEN Decline(rec)
    ELSE IF mode = "VARIABLES" /\ query_id = 1 /\ ~conditions.variable_valid THEN Decline(rec)
    ELSE IF mode = "SWITCHES" /\ conditions.switch1_id # query_id
                              /\ conditions.switch2_id # query_id THEN Decline(rec)
    ELSE IF mode = "SWITCHES" /\ query_id = 1
              /\ ~conditions.switch1_valid /\ ~conditions.switch2_valid THEN Decline(rec)
    ELSE IF f.st # "ok" THEN Fail(f, r1)
    ELSE Accept([r1 EXCEPT !.formatted_action = f.v])

----------------------------------------------------------------------------
(* The id tests of the command matchers. *)

(* query_id >= start && query_id <= end *)
is_within_range(start, end) == query_id >= start /\ query_id <= end

(* (!is_range && start != query_id) || (is_range && !is_within_range) *)
misses_target(start, end) ==
    LET is_range == start # end IN
    (~is_range /\ start # query_id) \/ (is_range /\ ~is_within_range(start, end))

(* Control Variable, VARIABLE operand: the access kind, "NONE" when the     *)
(* command does not deal with the query id (return false).                  *)
variable_operand_access(source, start, end) ==
    IF source = query_id
    THEN IF is_within_range(start, end) THEN "READWRITE" ELSE "READ"
    ELSE IF is_within_range(start, end) THEN "WRITE"
    ELSE "NONE"

(* A one-sided id test in place of the inequality. *)
if_switch_unrelated_above(id) == id > query_id

(* Conditional Branch, SWITCH variant: id != query_id *)
if_switch_unrelated(id) == id # query_id

----------------------------------------------------------------------------
(* Conditional Branch (IF_STATEMENT) *)

(* The table with the symbols of codes 1 and 2 exchanged. *)
operator_strs_ge_le_exchanged == <<"=", "<=", ">=", ">", "<", "!=">>

operator_strs == <<"=", ">=", "<=", ">", "<", "!=">>     \* keys 0..5

format_command_if_statement(parameters, ub) ==
    IF mode = "VARIABLES"
    THEN LET p2   == Get("uint", parameters, 2, ub)
             p3   == Get("uint", parameters, 3, ub)
             oper == Get("uint", parameters, 4, ub)
             p1   == Get("uint", parameters, 1, ub)
             nm   == Data(get_variable_name(query_id), ub)
         IN
         IF p2.st # "ok" THEN p2
         ELSE IF p2.v = IDType_VARIABLE /\ p3.st # "ok" THEN p3
         ELSE IF oper.st # "ok" THEN oper
         ELSE IF oper.v >= Len(operator_strs) THEN Ok("malformed operator")
         ELSE IF ~(p2.v = IDType_VARIABLE /\ p3.v = query_id)
         THEN IF nm.st # "ok" THEN nm ELSE IF p3.st # "ok" THEN p3
              ELSE Ok("If: {" \o nm.v \o "} " \o operator_strs[oper.v + 1] \o " "
                      \o format_d(p3.v) \o ":")
         ELSE IF p1.st # "ok" THEN p1 ELSE IF nm.st # "ok" THEN nm
              ELSE Ok("If: {#" \o format_d(p1.v) \o "} " \o operator_strs[oper.v + 1]
                      \o " {" \o nm.v \o "}:")
    ELSE LET switch_compared == Get("uint", parameters, 1, ub)
             p2 == Get("uint", parameters, 2, ub)
             nm == IF switch_compared.st = "ok"
                   THEN Data(get_switch_name(switch_compared.v), ub) ELSE switch_compared
         IN
         IF switch_compared.st # "ok" THEN switch_compared
         ELSE IF nm.st # "ok" THEN nm
         ELSE IF p2.st # "ok" THEN p2
         ELSE Ok("If: {" \o nm.v \o "} is " \o (IF p2.v # 0 THEN "OFF" ELSE "ON"))

scrape_command_if_statement(rec, cmd, ub) ==
    LET parameters  == cmd.parameters
        param_count == Len(parameters)
        id_type     == Get("uint", parameters, 0, ub)
        text        == Get("string", parameters, 1, ub)
        p1          == Get("uint", parameters, 1, ub)
        p2          == Get("uint", parameters, 2, ub)
        p3          == Get("uint", parameters, 3, ub)
        f           == format_command_if_statement(parameters, ub)
        r1          == [rec EXCEPT !.access_type = "READ", !.active = TRUE]
    IN
    IF id_type.st # "ok" THEN Fail(id_type, rec)
    ELSE IF id_type.v = IDType_SCRIPT
    THEN IF param_count # 2 THEN Decline(rec)
         ELSE IF text.st # "ok" THEN Fail(text, rec)
         ELSE determine_access_from_script(rec, text.v)
    ELSE IF mode = "VARIABLES" /\ (id_type.v # IDType_VARIABLE \/ param_count # 5)
    THEN Decline(rec)
    ELSE IF mode = "VARIABLES" /\ p2.st # "ok" THEN Fail(p2, rec)
    ELSE IF mode = "VARIABLES" /\ p3.st # "ok" THEN Fail(p3, rec)
    ELSE IF mode = "VARIABLES" /\ p1.st # "ok" THEN Fail(p1, rec)
    ELSE IF mode = "VARIABLES" /\ p2.v = CompareType_CONSTANT /\ p1.v # query_id
    THEN Decline(rec)
    ELSE IF mode = "VARIABLES" /\ p2.v = CompareType_VARIABLE
                               /\ (p1.v # query_id \/ p3.v # query_id)
    THEN Decline(rec)
    ELSE IF mode = "SWITCHES" /\ (id_type.v # IDType_SWITCH \/ param_count # 3)
    THEN Decline(rec)
    ELSE IF mode = "SWITCHES" /\ p1.st # "ok" THEN Fail(p1, rec)
    ELSE IF mode = "SWITCHES" /\ if_switch_unrelated(p1.v) THEN Decline(rec)
    ELSE IF f.st # "ok" THEN Fail(f, r1)
    ELSE Accept([r1 EXCEPT !.formatted_action = f.v])

----------------------------------------------------------------------------
(* Control Variable *)

operation_strs == <<"=", "+=", "-=", "*=", "/=", "%=">>   \* keys 0..5

format_command_control_variable(parameters, ub) ==
    LET variable_id_start == Get("uint", parameters, 0, ub)
        variable_id_end   == Get("uint", parameters, 1, ub)
        operation         == Get("uint", parameters, 3, ub)
        p4                == Get("uint", parameters, 4, ub)
        p5                == Get("uint", parameters, 5, ub)
        ns  == Data(get_variable_name(variable_id_start.v), ub)
        ne  == Data(get_variable_name(variable_id_end.v), ub)
        nv  == Data(get_variable_name(p4.v), ub)
        is_range == variable_id_start.v # variable_id_end.v
        var_prefix == IF is_range THEN "{" \o ns.v \o "} .. {" \o ne.v \o "}"
                      ELSE "{" \o ns.v \o "}"
    IN
    IF variable_id_start.st # "ok" THEN variable_id_start
    ELSE IF variable_id_end.st # "ok" THEN variable_id_end
    ELSE IF operation.st # "ok" THEN operation
    ELSE IF operation.v >= Len(operation_strs) THEN Ok("malformed operation")
    ELSE IF ns.st # "ok" THEN ns
    ELSE IF is_range /\ ne.st # "ok" THEN ne
    ELSE IF operation.v = Operand_VARIABLE
    THEN IF p4.st # "ok" THEN p4 ELSE IF nv.st # "ok" THEN nv
         ELSE Ok(var_prefix \o " " \o operation_strs[operation.v + 1] \o " {" \o nv.v \o "}")
    ELSE IF operation.v = Operand_CONSTANT
    THEN IF p4.st # "ok" THEN p4
         ELSE Ok(var_prefix \o " " \o operation_strs[operation.v + 1] \o " " \o format_d(p4.v))
    ELSE IF operation.v = Operand_RANDOM
    THEN IF p4.st # "ok" THEN p4 ELSE IF p5.st # "ok" THEN p5
         ELSE Ok(var_prefix \o " = Random " \o format_d(p4.v) \o " .. " \o format_d(p5.v))
    ELSE Ok("unsupported")

scrape_command_control_variable(rec, cmd, ub) ==
    LET parameters == cmd.parameters
        param_size == Len(parameters)
        operand    == Get("uint", parameters, 3, ub)
        variable_id_start == Get("uint", parameters, 0, ub)
        variable_id_end   == Get("uint", parameters, 1, ub)
        script_line       == Get("string", parameters, 4, ub)
        source            == Get("uint", parameters, 4, ub)
        f  == format_command_control_variable(parameters, ub)
        access == IF operand.v = Operand_CONSTANT \/ operand.v = Operand_RANDOM THEN "WRITE"
                  ELSE IF operand.v = Operand_VARIABLE
                  THEN variable_operand_access(source.v, variable_id_start.v,
                                               variable_id_end.v)
                  ELSE rec.access_type      \* no branch assigns access_type
        r1 == [rec EXCEPT !.access_type = access, !.active = TRUE]
    IN
    IF mode # "VARIABLES" THEN Decline(rec)
    ELSE IF operand.st # "ok" THEN Fail(operand, rec)
    ELSE IF operand.v = Operand_CONSTANT /\ param_size # 5 THEN Decline(rec)
    ELSE IF operand.v = Operand_VARIABLE /\ param_size # 5 THEN Decline(rec)
    ELSE IF operand.v = Operand_RANDOM /\ param_size # 6 THEN Decline(rec)
    ELSE IF variable_id_start.st # "ok" THEN Fail(variable_id_start, rec)
    ELSE IF variable_id_end.st # "ok" THEN Fail(variable_id_end, rec)
    ELSE IF operand.v = Operand_SCRIPT
    THEN IF script_line.st # "ok" THEN Fail(script_line, rec)
         ELSE determine_access_from_script(rec, script_line.v)
    ELSE IF operand.v = Operand_GAME_DATA THEN Decline(rec)
    ELSE IF (operand.v = Operand_CONSTANT \/ operand.v = Operand_RANDOM)
            /\ misses_target(variable_id_start.v, variable_id_end.v)
    THEN Decline(rec)
    ELSE IF operand.v = Operand_VARIABLE /\ source.st # "ok" THEN Fail(source, rec)
    ELSE IF operand.v = Operand_VARIABLE /\ access = "NONE" THEN Decline(rec)
    ELSE IF f.st # "ok" THEN Fail(f, r1)
    ELSE Accept([r1 EXCEPT !.formatted_action = f.v])

----------------------------------------------------------------------------
(* Control Switch *)

(* The formatter reading the value parameter as "nonzero = ON". *)
format_command_control_switch_nonzero_on(parameters, ub) ==
    LET switch_id_start == Get("uint", parameters, 0, ub)
        switch_id_end   == Get("uint", parameters, 1, ub)
        p2 == Get("uint", parameters, 2, ub)
        ns == Data(get_switch_name(switch_id_start.v), ub)
        ne == Data(get_switch_name(switch_id_end.v), ub)
        is_range == switch_id_start.v # switch_id_end.v
        var_prefix == IF is_range THEN "{" \o ns.v \o "} .. {" \o ne.v \o "}"
                      ELSE "{" \o ns.v \o "}"
    IN
    IF switch_id_start.st # "ok" THEN switch_id_start
    ELSE IF switch_id_end.st # "ok" THEN switch_id_end
    ELSE IF p2.st # "ok" THEN p2
    ELSE IF ns.st # "ok" THEN ns
    ELSE IF is_range /\ ne.st # "ok" THEN ne
    ELSE Ok(var_prefix \o " = " \o (IF p2.v # 0 THEN "ON" ELSE "OFF"))

format_command_control_switch(parameters, ub) ==
    LET switch_id_start == Get("uint", parameters, 0, ub)
        switch_id_end   == Get("uint", parameters, 1, ub)
        p2 == Get("uint", parameters, 2, ub)
        ns == Data(get_switch_name(switch_id_start.v), ub)
        ne == Data(get_switch_name(switch_id_end.v), ub)
        is_range == switch_id_start.v # switch_id_end.v
        var_prefix == IF is_range THEN "{" \o ns.v \o "} .. {" \o ne.v \o "}"
                      ELSE "{" \o ns.v \o "}"
    IN
    IF switch_id_start.st # "ok" THEN switch_id_start
    ELSE IF switch_id_end.st # "ok" THEN switch_id_end
    ELSE IF p2.st # "ok" THEN p2
    ELSE IF ns.st # "ok" THEN ns
    ELSE IF is_range /\ ne.st # "ok" THEN ne
    ELSE Ok(var_prefix \o " = " \o (IF p2.v # 0 THEN "OFF" ELSE "ON"))

scrape_command_control_switch(rec, cmd, ub) ==
    LET parameters == cmd.parameters
        switch_id_start == Get("uint", parameters, 0, ub)
        switch_id_end   == Get("uint", parameters, 1, ub)
        f  == format_command_control_switch(parameters, ub)
        r1 == [rec EXCEPT !.access_type = "WRITE", !.active = TRUE]
    IN
    IF mode # "SWITCHES" THEN Decline(rec)
    ELSE IF Len(parameters) # 3 THEN Decline(rec)
    ELSE IF switch_id_start.st # "ok" THEN Fail(switch_id_start, rec)
    ELSE IF switch_id_end.st # "ok" THEN Fail(switch_id_end, rec)
    ELSE IF misses_target(switch_id_start.v, switch_id_end.v) THEN Decline(rec)
    ELSE IF f.st # "ok" THEN Fail(f, r1)
    ELSE Accept([r1 EXCEPT !.formatted_action = f.v])

----------------------------------------------------------------------------
(* Common-event trigger gate *)

has_trigger(ce) == ce.trigger # Trigger_NONE

format_common_event_trigger(ce) ==
    "HAS TRIGGER: (" \o (IF ce.trigger = Trigger_AUTORUN THEN "AUTORUN" ELSE "PARALLEL") \o ")"

(* The trigger gate without the comparison of the gating switch with the   *)
(* query id.                                                                *)
scrape_common_event_trigger_any_switch(rec, ce) ==
    Accept([rec EXCEPT !.access_type = "READ", !.active = TRUE,
                       !.formatted_action = format_common_event_trigger(ce)])

scrape_common_event_trigger(rec, ce) ==
    IF ce.switch_id # query_id THEN Decline(rec)
    ELSE Accept([rec EXCEPT !.access_type = "READ", !.active = TRUE,
                            !.formatted_action = format_common_event_trigger(ce)])

----------------------------------------------------------------------------
(* Opcode predicates and the dispatch chain of scrape(): the matchers are   *)
(* tried in the order if-statement, control-variable, control-switch,       *)
(* script; the first that accepts ends the chain.  A matcher that declines  *)
(* has not written to result_info, so each is handed rec as it was.         *)

is_script(cmd)           == cmd.code = SCRIPT_SINGLE_LINE \/ cmd.code = SCRIPT_MULTI_LINE
is_if_statement(cmd)     == cmd.code = IF_STATEMENT
is_control_switch(cmd)   == cmd.code = CONTROL_SWITCH
is_control_variable(cmd) == cmd.code = CONTROL_VARIABLE

dispatch(rec, cmd, ub) ==
    LET a == IF is_if_statement(cmd) THEN scrape_command_if_statement(rec, cmd, ub)
             ELSE Decline(rec)
        b == IF is_control_variable(cmd) THEN scrape_command_control_variable(rec, cmd, ub)
             ELSE Decline(rec)
        c == IF is_control_switch(cmd) THEN scrape_command_control_switch(rec, cmd, ub)
             ELSE Decline(rec)
        d == IF is_script(cmd) THEN scrape_command_script(rec, cmd, ub)
             ELSE Decline(rec)
    IN
    IF a.st # "decline" THEN a
    ELSE IF b.st # "decline" THEN b
    ELSE IF c.st # "decline" THEN c
    ELSE d

----------------------------------------------------------------------------
(* The project data the run can meet. *)

QueryIds == 0 .. MaxQuery

(* System.json: position = id; a null entry is absent, "" is an empty name. *)
FullNames   == [i \in Ids |-> IF i = 2 THEN "" ELSE "N" \o ToString(i)]
SparseNames == [i \in {1, 2} |-> "N" \o ToString(i)]
GapNames    == [i \in {1, 3} |-> "N" \o ToString(i)]
NoNames     == [i \in {} |-> ""]
NameTables  == {FullNames, SparseNames, GapNames, NoNames}

ReadV(i)  == <<"$gameVariables.value(">> \o Digits(i) \o <<")">>
WriteV(i) == <<"$gameVariables.setValue(">> \o Digits(i) \o <<",", "1", ")">>
ReadS(i)  == <<"$gameSwitches.value(">> \o Digits(i) \o <<")">>
WriteS(i) == <<"$gameSwitches.setValue(">> \o Digits(i) \o <<",", "true", ")">>

ScriptIds == (1 .. MaxQuery) \cup {10 * i : i \in 1 .. MaxQuery}
ScriptTexts ==
    {<<"foo()">>}
    \cup {ReadV(i) : i \in ScriptIds} \cup {WriteV(i) : i \in ScriptIds}
    \cup {ReadS(i) : i \in ScriptIds} \cup {WriteS(i) : i \in ScriptIds}
    \cup {WriteV(i) \o <<";">> \o ReadV(i) : i \in 1 .. MaxQuery}
    \cup {WriteS(i) \o <<";">> \o ReadS(i) : i \in 1 .. MaxQuery}

(* Well-formed parameter lists, by opcode and variant. *)
IfScriptParams   == {<<U(IDType_SCRIPT), S(t)>> : t \in ScriptTexts}
IfVariableParams == {<<U(IDType_VARIABLE), U(id), U(ct), U(cmp), U(op)>> :
                        id \in Ids, ct \in 0 .. 2, cmp \in Ids, op \in 0 .. 6}
IfSwitchParams   == {<<U(it), U(id), U(inv)>> : it \in {IDType_SWITCH, 2}, id \in Ids, inv \in 0 .. 1}

CvConstantParams == {<<U(a), U(b), U(opn), U(Operand_CONSTANT), U(7)>> :
                        a \in Ids, b \in Ids, opn \in 0 .. 1}
CvVariableParams == {<<U(a), U(b), U(0), U(Operand_VARIABLE), U(src)>> :
                        a \in Ids, b \in Ids, src \in Ids}
CvRandomParams   == {<<U(a), U(b), U(0), U(Operand_RANDOM), U(1), U(9)>> : a \in Ids, b \in Ids}
CvGameDataParams == {<<U(a), U(b), U(0), U(Operand_GAME_DATA), U(0), U(0), U(0)>> :
                        a \in Ids, b \in Ids}
CvScriptParams   == {<<U(a), U(a), U(0), U(Operand_SCRIPT), S(t)>> :
                        a \in 1 .. 2, t \in ScriptTexts}
CvOtherParams    == {<<U(a), U(b), U(0), U(opd), U(0)>> : a \in Ids, b \in Ids, opd \in 5 .. 6}

CsParams     == {<<U(a), U(b), U(v)>> : a \in Ids, b \in Ids, v \in 0 .. 1}
ScriptParams == {<<S(t)>> : t \in ScriptTexts}

(* Lists that break the schema: cut short, one too long, or with a          *)
(* one-character string (decoded as char) at one position.                  *)
Perturb(ps) ==
    UNION {{SubSeq(p, 1, k) : k \in 0 .. Len(p) - 1} : p \in ps}
    \cup {Append(p, U(0)) : p \in ps}
    \cup UNION {{[p EXCEPT ![i] = C("x")] : i \in 1 .. Len(p)} : p \in ps}

IfParams == IfScriptParams \cup IfVariableParams \cup IfSwitchParams
CvParams == CvConstantParams \cup CvVariableParams \cup CvRandomParams
            \cup CvGameDataParams \cup CvScriptParams \cup CvOtherParams

Cmd(c, ps) == [code |-> c, parameters |-> ps]

Commands ==
    {Cmd(IF_STATEMENT, ps) : ps \in IfParams \cup Perturb(IfParams)}
    \cup {Cmd(CONTROL_VARIABLE, ps) : ps \in CvParams \cup Perturb(CvParams)}
    \cup {Cmd(CONTROL_SWITCH, ps) : ps \in CsParams \cup Perturb(CsParams)}
    \cup {Cmd(c, ps) : c \in {SCRIPT_SINGLE_LINE, SCRIPT_MULTI_LINE},
                       ps \in ScriptParams \cup Perturb(ScriptParams)}
    \cup {Cmd(0, <<>>), Cmd(101, <<U(1), U(0)>>)}

NoCommand == Cmd(0, <<>>)       \* a default-constructed Command

Cond(s1, v1, s2, v2, vi, vv, val) ==
    [switch1_id |-> s1, switch1_valid |-> v1, switch2_id |-> s2, switch2_valid |-> v2,
     variable_id |-> vi, variable_valid |-> vv, variable_value |-> val]

NoCondition == Cond(0, FALSE, 0, FALSE, 0, FALSE, 0)   \* a default-constructed Condition

CondIds == 0 .. MaxQuery + 1
Conditions ==
    {Cond(s1, v1, s2, v2, vi, vv, val) :
        s1 \in CondIds, v1 \in BOOLEAN, s2 \in CondIds, v2 \in BOOLEAN,
        vi \in CondIds, vv \in BOOLEAN, val \in {0, 10}}

NoCommonEvent == [id |-> 0, name |-> "", switch_id |-> 0, trigger |-> Trigger_NONE]

----------------------------------------------------------------------------
(* Decoding of the project's JSON (rpgmaker_types.cpp).  A JSON number,     *)
(* boolean, string or null is a record of its kind and value, a string's    *)
(* value being its text; an array is a sequence and an object a function    *)
(* on its keys.                                                             *)

JInt(n)       == [t |-> "integer", v |-> n]
JFloat(x)     == [t |-> "float", v |-> x]
JBool(b)      == [t |-> "boolean", v |-> b]
JString(text) == [t |-> "string", v |-> text]
JNull         == [t |-> "null", v |-> 0]

contains(j, key) == key \in DOMAIN j

(* std::string_view::length() *)
RECURSIVE length(_)
length(text) == IF text = <<>> THEN 0 ELSE Len(Head(text)) + length(Tail(text))

Command_is_valid(command_json) ==
    /\ contains(command_json, "code") /\ command_json["code"].t = "integer"
    /\ contains(command_json, "parameters")

(* The loop with the string test placed before the one-character test. *)
RECURSIVE decode_parameters_string_first(_)
decode_parameters_string_first(ps) ==
    IF ps = <<>> THEN <<>>
    ELSE LET parameter == Head(ps)
             element ==
                 IF parameter.t = "integer" THEN <<U(parameter.v)>>
                 ELSE IF parameter.t = "float" THEN <<D(parameter.v)>>
                 ELSE IF parameter.t = "boolean" THEN <<B(parameter.v)>>
                 ELSE IF parameter.t = "string" THEN <<S(parameter.v)>>
                 ELSE IF parameter.t = "string" /\ length(parameter.v) = 1
                 THEN <<C(Join(parameter.v))>>
                 ELSE <<>>
         IN element \o decode_parameters_string_first(Tail(ps))

(* The loop of Command::Command over the parameters: the first test that   *)
(* holds appends one element; a parameter that passes none is left out.    *)
RECURSIVE decode_parameters(_)
decode_parameters(ps) ==
    IF ps = <<>> THEN <<>>
    ELSE LET parameter == Head(ps)
             element ==
                 IF parameter.t = "integer" THEN <<U(parameter.v)>>
                 ELSE IF parameter.t = "float" THEN <<D(parameter.v)>>
                 ELSE IF parameter.t = "boolean" THEN <<B(parameter.v)>>
                 ELSE IF parameter.t = "string" /\ length(parameter.v) = 1
                 THEN <<C(Join(parameter.v))>>
                 ELSE IF parameter.t = "string" THEN <<S(parameter.v)>>
                 ELSE <<>>
         IN element \o decode_parameters(Tail(ps))

Command(command_json) ==
    IF ~Command_is_valid(command_json) THEN NoCommand
    ELSE Cmd(command_json["code"].v, decode_parameters(command_json["parameters"]))

ConditionIntegers == {"switch1Id", "switch2Id", "variableId", "variableValue"}
ConditionBooleans == {"switch1Valid", "switch2Valid", "variableValid"}

Condition_is_valid(condition_json) ==
    /\ \A key \in ConditionIntegers :
          contains(condition_json, key) /\ condition_json[key].t = "integer"
    /\ \A key \in ConditionBooleans :
          contains(condition_json, key) /\ condition_json[key].t = "boolean"

Condition(condition_json) ==
    IF ~Condition_is_valid(condition_json) THEN NoCondition
    ELSE Cond(condition_json["switch1Id"].v, condition_json["switch1Valid"].v,
              condition_json["switch2Id"].v, condition_json["switch2Valid"].v,
              condition_json["variableId"].v, condition_json["variableValid"].v,
              condition_json["variableValue"].v)

EventPage_is_valid(event_page_json) ==
    contains(event_page_json, "conditions") /\ contains(event_page_json, "list")

EventPage(event_page_json) ==
    IF ~EventPage_is_valid(event_page_json) THEN [conditions |-> NoCondition, list |-> <<>>]
    ELSE [conditions |-> Condition(event_page_json["conditions"]),
          list |-> [i \in 1 .. Len(event_page_json["list"]) |->
                       Command(event_page_json["list"][i])]]

(* The JSON the decoders are run on. *)
JsonParameterLists ==
    {<<>>,
     <<JString(<<"x">>)>>, <<JString(<<>>)>>, <<JString(<<"x", "y">>)>>,
     <<JString(ReadV(1))>>, <<JString(WriteS(2))>>,
     <<JNull, JString(ReadV(1))>>, <<JFloat(15)>>, <<JBool(TRUE)>>,
     <<JInt(1), JInt(3), JInt(1)>>, <<JInt(1), JInt(1), JBool(FALSE)>>,
     <<JString(<<"x">>), JString(WriteV(1))>>}

JsonObject(key, value) == key :> value

JsonCommands ==
    {JsonObject("code", code) @@ JsonObject("parameters", ps) :
        code \in {JInt(SCRIPT_SINGLE_LINE), JInt(SCRIPT_MULTI_LINE), JInt(CONTROL_SWITCH),
                  JString(<<"355">>)},
        ps \in JsonParameterLists}
    \cup {JsonObject("code", JInt(SCRIPT_SINGLE_LINE))}
    \cup {JsonObject("parameters", ps) : ps \in JsonParameterLists}

JsonCondition(c) ==
    JsonObject("switch1Id", JInt(c.switch1_id))
    @@ JsonObject("switch1Valid", JBool(c.switch1_valid))
    @@ JsonObject("switch2Id", JInt(c.switch2_id))
    @@ JsonObject("switch2Valid", JBool(c.switch2_valid))
    @@ JsonObject("variableId", JInt(c.variable_id))
    @@ JsonObject("variableValid", JBool(c.variable_valid))
    @@ JsonObject("variableValue", JInt(c.variable_value))

Without(j, key) == [f \in DOMAIN j \ {key} |-> j[f]]

JsonConditions ==
    LET whole == {JsonCondition(c) :
                     c \in {NoCondition, Cond(1, TRUE, 2, TRUE, 1, TRUE, 10),
                            Cond(2, TRUE, 0, FALSE, 2, FALSE, 0)}}
    IN whole
       \cup {Without(j, key) : j \in whole, key \in ConditionIntegers \cup ConditionBooleans}
       \cup {[j EXCEPT !["switch1Valid"] = JInt(1)] : j \in whole}

JsonPages ==
    {JsonObject("conditions", jc) @@ JsonObject("list", <<>>) : jc \in JsonConditions}
    \cup {JsonObject("list", <<>>)}
    \cup {JsonObject("conditions", jc) : jc \in JsonConditions}

(* The files load() opens under data/; without data/ none of them exists. *)
Files == {"data", "MapInfos.json", "System.json", "CommonEvents.json"}
MissingFiles == (SUBSET (Files \ {"data"})) \cup {Files}

----------------------------------------------------------------------------
(* The run. *)

Init ==
    /\ pc = "load"
    /\ mode \in ScrapeMode
    /\ query_id \in QueryIds
    /\ variable_names = NoNames
    /\ switch_names = NoNames
    /\ heap = <<>>
    /\ results = <<>>
    /\ common_event_results = <<>>
    /\ cur = 0
    /\ map_id = 0 /\ event_id = 0 /\ page_num = 0 /\ line_num = 0
    /\ pages_read = 0 /\ common_read = 0
    /\ common_event = NoCommonEvent
    /\ page = NoCondition
    /\ command = NoCommand
    /\ outcome = "none"
    /\ missing = {}
    /\ load_steps = <<>>
    /\ fault = "none"
    /\ lines_read = 0
    /\ json = <<>>

(* The steps of load() in order, and the fault each throws when it fails:   *)
(* setup_directory, populate_map_names and populate_names throw             *)
(* std::logic_error, the query-id check throws std::invalid_argument;       *)
(* scrape_maps() skips a map it cannot read and the result of               *)
(* scrape_common_events() is not looked at.                                 *)
load_fault(miss, table) ==
    IF "data" \in miss THEN "invalid root directory"
    ELSE IF "MapInfos.json" \in miss THEN "unable to populate map names"
    ELSE IF "System.json" \in miss THEN "unable to populate names"
    ELSE IF mode = "VARIABLES" /\ VariableLookup(table, query_id) = <<>>
    THEN "invalid variable id"
    ELSE IF mode = "SWITCHES" /\ SwitchLookup(table, query_id) = <<>>
    THEN "invalid switch id"
    ELSE "none"

load_trace(miss, table) ==
    LET f == load_fault(miss, table) IN
    IF f = "invalid root directory" THEN <<"setup_directory">>
    ELSE IF f = "unable to populate map names"
    THEN <<"setup_directory", "populate_map_names">>
    ELSE IF f = "unable to populate names" \/ f = "invalid variable id"
            \/ f = "invalid switch id"
    THEN <<"setup_directory", "populate_map_names", "populate_names">>
    ELSE <<"setup_directory", "populate_map_names", "populate_names", "scrape_maps",
           "scrape_common_events">>

(* RPGMakerScraper::load(), run by the constructor: populate_names() fills  *)
(* the table of the mode, then the query id must have a name.               *)
Load ==
    /\ pc = "load"
    /\ \E table \in NameTables, miss \in MissingFiles :
       \E names \in {IF "System.json" \in miss \/ "MapInfos.json" \in miss
                      THEN NoNames ELSE table} :
        /\ missing' = miss
        /\ variable_names' = IF mode = "VARIABLES" THEN names ELSE variable_names
        /\ switch_names'   = IF mode = "SWITCHES" THEN names ELSE switch_names
        /\ load_steps' = load_trace(miss, names)
        /\ fault' = load_fault(miss, names)
        /\ pc' = IF load_fault(miss, names) # "none" THEN "caught" ELSE "maps"
    /\ UNCHANGED <<json, mode, query_id, heap, results, common_event_results, cur, map_id,
                   event_id, page_num, line_num, pages_read, common_read, common_event,
                   page, command, outcome, lines_read>>

CrashUB == [crash |-> TRUE, p |-> U(0), s |-> ""]

(* The outcomes to consider for a call: all of UBOutcomes when the call     *)
(* meets undefined behaviour, a single one when it does not.                *)
UBChoices(hitsUB) == IF hitsUB THEN UBOutcomes ELSE {CrashUB}

(* One matcher call on a freshly allocated record, observed alone. *)
MatchCommand ==
    /\ pc = "maps"
    /\ \E cmd \in Commands :
       \E ub \in UBChoices(dispatch(FreshResult, cmd, CrashUB).st = "crash") :
       \E r \in {dispatch(FreshResult, cmd, ub)} :
        /\ heap' = <<r.rec>>
        /\ cur' = 1
        /\ command' = cmd
        /\ outcome' = r.st
    /\ pc' = "matcher_called"
    /\ UNCHANGED <<json, mode, query_id, variable_names, switch_names, results,
                   common_event_results, map_id, event_id, page_num, line_num,
                   pages_read, common_read, common_event, page,
                   missing, load_steps, fault, lines_read>>

MatchPageCondition ==
    /\ pc = "maps"
    /\ \E cond \in Conditions :
       \E ub \in UBChoices(scrape_event_page_condition(FreshResult, cond, CrashUB).st = "crash") :
       \E r \in {scrape_event_page_condition(FreshResult, cond, ub)} :
        /\ heap' = <<r.rec>>
        /\ cur' = 1
        /\ page' = cond
        /\ outcome' = r.st
    /\ pc' = "gate_called"
    /\ UNCHANGED <<json, mode, query_id, variable_names, switch_names, results,
                   common_event_results, map_id, event_id, page_num, line_num,
                   pages_read, common_read, common_event, command,
                   missing, load_steps, fault, lines_read>>

(* A command decoded from its JSON, then handed to the dispatch chain. *)
DecodeCommand ==
    /\ pc = "maps"
    /\ \E command_json \in JsonCommands :
       \E cmd \in {Command(command_json)} :
       \E ub \in UBChoices(dispatch(FreshResult, cmd, CrashUB).st = "crash") :
       \E r \in {dispatch(FreshResult, cmd, ub)} :
        /\ heap' = <<r.rec>>
        /\ cur' = 1
        /\ command' = cmd
        /\ json' = <<command_json>>
        /\ outcome' = r.st
    /\ pc' = "matcher_called"
    /\ UNCHANGED <<mode, query_id, variable_names, switch_names, results,
                   common_event_results, map_id, event_id, page_num, line_num,
                   pages_read, common_read, common_event, page,
                   missing, load_steps, fault, lines_read>>

(* An event page decoded from its JSON, then its Condition Gate. *)
DecodePage ==
    /\ pc = "maps"
    /\ \E event_page_json \in JsonPages :
       \E event_page \in {EventPage(event_page_json)} :
       \E ub \in UBChoices(scrape_event_page_condition(FreshResult, event_page.conditions,
                                                       CrashUB).st = "crash") :
       \E r \in {scrape_event_page_condition(FreshResult, event_page.conditions, ub)} :
        /\ heap' = <<r.rec>>
        /\ cur' = 1
        /\ page' = event_page.conditions
        /\ json' = <<event_page_json>>
        /\ outcome' = r.st
    /\ pc' = "gate_called"
    /\ UNCHANGED <<mode, query_id, variable_names, switch_names, results,
                   common_event_results, map_id, event_id, page_num, line_num,
                   pages_read, common_read, common_event, command,
                   missing, load_steps, fault, lines_read>>

NextMatch == Load \/ MatchCommand \/ MatchPageCondition \/ DecodeCommand \/ DecodePage

SpecMatch == Init /\ [][NextMatch]_vars

----------------------------------------------------------------------------
(* The pass: scrape() over the decoded project, then print_results().       *)

(* The records a whole pass is run on. *)
PassConditions ==
    {NoCondition,
     Cond(0, FALSE, 0, FALSE, 1, TRUE, 10),
     Cond(1, TRUE, 2, TRUE, 0, FALSE, 0)}

PassCommands ==
    {NoCommand,
     Cmd(IF_STATEMENT, <<U(IDType_VARIABLE), U(1), U(CompareType_CONSTANT), U(7), U(1)>>),
     Cmd(IF_STATEMENT, <<U(IDType_SWITCH), U(1), U(0)>>),
     Cmd(IF_STATEMENT, <<U(IDType_SCRIPT), C("x")>>),
     Cmd(CONTROL_VARIABLE, <<U(1), U(1), U(0), U(Operand_CONSTANT), U(7)>>),
     Cmd(CONTROL_VARIABLE, <<U(1), U(1), U(0), U(5), U(0)>>),
     Cmd(CONTROL_VARIABLE, <<U(1), U(1), U(0)>>),
     Cmd(CONTROL_SWITCH, <<U(1), U(3), U(1)>>),
     Cmd(SCRIPT_SINGLE_LINE, <<S(WriteV(2))>>),
     Cmd(SCRIPT_MULTI_LINE, <<S(ReadS(2))>>)}

CommonEvents ==
    {[id |-> i, name |-> "CE" \o ToString(i), switch_id |-> st[1], trigger |-> st[2]] :
        i \in 1 .. MaxCommon,
        st \in {<<1, Trigger_NONE>>, <<1, Trigger_AUTORUN>>, <<2, Trigger_PARALLEL>>}}

(* An assignment in place of push_back: the key keeps one entry. *)
Push_overwrite(container, key, ref) == (key :> <<ref>>) @@ container

(* container[key].push_back(ref) on a std::map *)
Push(container, key, ref) ==
    IF key \in DOMAIN container THEN [container EXCEPT ![key] = Append(@, ref)]
    ELSE (key :> <<ref>>) @@ container

(* what main's catch reports when a matcher call raised *)
Caught(st) == IF st = "raise" THEN "std::bad_variant_access" ELSE fault

(* where a matcher call leaves the run *)
After(st, here) == IF st = "raise" THEN "caught" ELSE IF st = "crash" THEN "crashed" ELSE here

(* scrape(), maps loop: the next page of the current event, of the next     *)
(* event or of the next map.  One result_info is allocated per page; the    *)
(* Condition Gate is tried on it.                                           *)
BeginPage ==
    /\ pc = "maps" /\ pages_read < MaxPages
    /\ \E where \in {"page", "event", "map"}, cond \in PassConditions :
       \E ub \in UBChoices(scrape_event_page_condition(FreshResult, cond, CrashUB).st = "crash") :
        /\ where # "map" => map_id > 0
        /\ map_id'   = IF where = "map" THEN map_id + 1 ELSE map_id
        /\ event_id' = IF where = "map" THEN 1 ELSE IF where = "event" THEN event_id + 1
                       ELSE event_id
        /\ page_num' = IF where = "page" THEN page_num + 1 ELSE 1
        /\ \E r \in {scrape_event_page_condition(
                           [FreshResult EXCEPT !.event_page = page_num',
                                               !.event_id = event_id'], cond, ub)},
              ref \in {Len(heap) + 1} :
           /\ heap' = Append(heap, r.rec)
           /\ cur' = ref
           /\ results' = IF r.st = "accept" THEN Push(results, map_id', ref) ELSE results
           /\ outcome' = r.st
           /\ pc' = After(r.st, "maps")
           /\ fault' = Caught(r.st)
    /\ line_num' = 0
    /\ pages_read' = pages_read + 1
    /\ UNCHANGED <<json, mode, query_id, variable_names, switch_names, common_event_results,
                   common_read, common_event, page, command,
                   missing, load_steps, lines_read>>

(* scrape(), maps loop: the next command of the page, through the dispatch  *)
(* chain, on the page's result_info.                                        *)
ReadCommand ==
    /\ pc = "maps" /\ cur # 0 /\ lines_read < MaxLines
    /\ \E cmd \in PassCommands :
       \E ub \in UBChoices(dispatch(heap[cur], cmd, CrashUB).st = "crash") :
       \E r \in {dispatch(heap[cur], cmd, ub)} :
        /\ heap' = [heap EXCEPT ![cur] =
                       IF r.st = "accept" THEN [r.rec EXCEPT !.line_number = <<line_num + 1>>]
                       ELSE r.rec]
        /\ results' = IF r.st = "accept" THEN Push(results, map_id, cur) ELSE results
        /\ outcome' = r.st
        /\ pc' = After(r.st, "maps")
        /\ fault' = Caught(r.st)
    /\ line_num' = line_num + 1
    /\ lines_read' = lines_read + 1
    /\ UNCHANGED <<json, mode, query_id, variable_names, switch_names, common_event_results,
                   cur, map_id, event_id, page_num, pages_read, common_read, common_event,
                   page, command,
                   missing, load_steps>>

(* scrape(): the maps loop is over, the common events loop starts. *)
EndMaps ==
    /\ pc = "maps"
    /\ pc' = "common"
    /\ cur' = 0
    /\ line_num' = 0
    /\ outcome' = "none"
    /\ UNCHANGED <<json, mode, query_id, variable_names, switch_names, heap, results,
                   common_event_results, map_id, event_id, page_num, pages_read,
                   common_read, common_event, page, command,
                   missing, load_steps, fault, lines_read>>

(* scrape(), common events loop: the next common event and its Trigger     *)
(* Gate.  CommonEvents.json lists the common events by id: the k-th one    *)
(* read has id k.                                                           *)
BeginCommonEvent ==
    /\ pc = "common" /\ common_read < MaxCommon /\ "CommonEvents.json" \notin missing
    /\ \E ce \in {c \in CommonEvents : c.id = common_read + 1} :
       \E r \in {scrape_common_event_trigger(FreshResult, ce)}, ref \in {Len(heap) + 1} :
       \E hit \in {mode = "SWITCHES" /\ has_trigger(ce) /\ r.st = "accept"} :
        /\ common_event' = ce
        /\ heap' = IF hit THEN Append(heap, [r.rec EXCEPT !.name = ce.name]) ELSE heap
        /\ common_event_results' =
              IF hit THEN Push(common_event_results, ce.id, ref) ELSE common_event_results
        /\ outcome' = IF hit THEN "accept" ELSE "decline"
    /\ line_num' = 0
    /\ common_read' = common_read + 1
    /\ UNCHANGED <<json, pc, mode, query_id, variable_names, switch_names, results, cur, map_id,
                   event_id, page_num, pages_read, page, command,
                   missing, load_steps, fault, lines_read>>

(* scrape(), common events loop: the next command, on a result_info of its  *)
(* own.                                                                     *)
ReadCommonCommand ==
    /\ pc = "common" /\ common_read > 0 /\ lines_read < MaxLines
    /\ \E cmd \in PassCommands :
       \E ub \in UBChoices(dispatch(FreshResult, cmd, CrashUB).st = "crash") :
       \E r \in {dispatch(FreshResult, cmd, ub)}, ref \in {Len(heap) + 1} :
        /\ heap' = IF r.st = "accept"
                   THEN Append(heap, [r.rec EXCEPT !.line_number = <<line_num + 1>>,
                                                   !.name = common_event.name])
                   ELSE heap
        /\ common_event_results' =
              IF r.st = "accept" THEN Push(common_event_results, common_event.id, ref)
              ELSE common_event_results
        /\ outcome' = r.st
        /\ pc' = After(r.st, "common")
        /\ fault' = Caught(r.st)
    /\ line_num' = line_num + 1
    /\ lines_read' = lines_read + 1
    /\ UNCHANGED <<json, mode, query_id, variable_names, switch_names, results, cur, map_id,
                   event_id, page_num, pages_read, common_read, common_event, page, command,
                   missing, load_steps>>

(* All references of a container map, containers in ascending key order. *)
RECURSIVE Flatten(_)
Flatten(container) ==
    IF DOMAIN container = {} THEN <<>>
    ELSE LET k == CHOOSE x \in DOMAIN container : \A y \in DOMAIN container : x <= y IN
         container[k] \o Flatten([j \in DOMAIN container \ {k} |-> container[j]])

has_results == DOMAIN results # {} \/ DOMAIN common_event_results # {}

(* print_results() at the end of scrape().  The common-event loop keeps     *)
(* `static auto &latest_event_name = common_event->name`, a reference to    *)
(* the name of the first Finding printed, and assigns every differing name  *)
(* to it.                                                                   *)
print_results(h) ==
    LET hits == Flatten(common_event_results) IN
    IF ~has_results \/ hits = <<>> THEN h
    ELSE [h EXCEPT ![hits[1]].name = h[hits[Len(hits)]].name]

Finish ==
    /\ pc = "common"
    /\ heap' = print_results(heap)
    /\ pc' = "done"
    /\ outcome' = "none"
    /\ UNCHANGED <<json, mode, query_id, variable_names, switch_names, results,
                   common_event_results, cur, map_id, event_id, page_num, line_num,
                   pages_read, common_read, common_event, page, command,
                   missing, load_steps, fault, lines_read>>

Next ==
    \/ Load
    \/ BeginPage
    \/ ReadCommand
    \/ EndMaps
    \/ BeginCommonEvent
    \/ ReadCommonCommand
    \/ Finish

Spec == Init /\ [][Next]_vars

----------------------------------------------------------------------------
(* Vocabulary of the properties. *)

MatcherCalled == pc = "matcher_called"
GateCalled    == pc = "gate_called"
Accepted      == outcome = "accept"
Declined      == outcome = "decline"
Finding       == heap[cur]                      \* result_info after the call
NumParams     == Len(command.parameters)
P(i)          == command.parameters[i + 1]      \* parameters[i]
UintAt(I)     == \A i \in I : i < NumParams /\ P(i).t = "uint"
InRange(start, end) == start <= query_id /\ query_id <= end
Decimal(n)    == Join(Digits(n))                \* n in decimal digits
(* The name shown for an id that has an entry in the table. *)
ShownName(names, id) == IF names[id] = "" THEN "#" \o Decimal(id) ELSE names[id]

----------------------------------------------------------------------------
(* C1: Control Variable with VARIABLE operand and exactly 5 parameters, in  *)
(* VARIABLES mode: source = q and q in [start,end] gives READWRITE; source  *)
(* = q and q outside gives READ; source # q and q in range gives WRITE;     *)
(* source # q and q outside gives no Finding.                               *)
C1_IsCase ==
    /\ MatcherCalled /\ mode = "VARIABLES" /\ command.code = CONTROL_VARIABLE
    /\ NumParams = 5 /\ UintAt({0, 1, 3, 4}) /\ P(3).v = Operand_VARIABLE

C1_VariableOperandAccess ==
    C1_IsCase =>
        LET start == P(0).v
            end   == P(1).v
            src   == P(4).v
            kind  == IF src = query_id
                     THEN IF InRange(start, end) THEN "READWRITE" ELSE "READ"
                     ELSE "WRITE"
        IN
        IF src # query_id /\ ~InRange(start, end) THEN Declined
        ELSE Accepted /\ Finding.access_type = kind /\ Finding.active

(* C2: range boundary law.  Control Switch (SWITCHES mode, 3 parameters)    *)
(* and Control Variable with CONSTANT (5 parameters) or RANDOM (6           *)
(* parameters) operand in VARIABLES mode accept exactly when                *)
(* start <= q <= end; start = end matches q = start; start > end matches    *)
(* nothing.                                                                 *)
C2_IsSwitchCase ==
    /\ MatcherCalled /\ mode = "SWITCHES" /\ command.code = CONTROL_SWITCH
    /\ NumParams = 3 /\ UintAt({0, 1, 2})

C2_IsVariableCase ==
    /\ MatcherCalled /\ mode = "VARIABLES" /\ command.code = CONTROL_VARIABLE
    /\ UintAt(0 .. NumParams - 1)
    /\ \/ NumParams = 5 /\ P(3).v = Operand_CONSTANT
       \/ NumParams = 6 /\ P(3).v = Operand_RANDOM

C2_RangeBoundaryLaw ==
    /\ C2_IsSwitchCase => (Accepted <=> InRange(P(0).v, P(1).v)) /\ (Accepted \/ Declined)
    /\ C2_IsVariableCase =>
          IF InRange(P(0).v, P(1).v)
          THEN Accepted /\ Finding.access_type = "WRITE"
          ELSE Declined

(* C3: a command of opcode IF_STATEMENT, CONTROL_VARIABLE, CONTROL_SWITCH   *)
(* or SCRIPT whose parameter count differs from the arity of its opcode and *)
(* variant produces no Finding.                                             *)
RequiredArities ==
    IF is_if_statement(command)
    THEN IF UintAt({0})
         THEN IF P(0).v = IDType_SCRIPT THEN {2}
              ELSE IF P(0).v = IDType_VARIABLE THEN {5}
              ELSE IF P(0).v = IDType_SWITCH THEN {3} ELSE {}
         ELSE {2, 3, 5}
    ELSE IF is_control_variable(command)
    THEN IF UintAt({3})
         THEN IF P(3).v \in {Operand_CONSTANT, Operand_VARIABLE} THEN {5}
              ELSE IF P(3).v = Operand_RANDOM THEN {6} ELSE {}
         ELSE {5, 6}
    ELSE IF is_control_switch(command) THEN {3}
    ELSE IF is_script(command) THEN {1}
    ELSE {}

ArityMismatch == RequiredArities # {} /\ NumParams \notin RequiredArities

C3_ArityMismatchNoFinding ==
    MatcherCalled /\ ArityMismatch => ~Accepted

(* C4: no matcher raises or reads a parameter that does not exist: every    *)
(* call of the four command matchers returns decline or accept.             *)
C4_MatchersNeverRaise ==
    MatcherCalled => Accepted \/ Declined

(* C5: default-id rule.  With query id 1 a Condition Gate produces a        *)
(* Finding only if the slot that names id 1 has its own validity flag true. *)
C5_DefaultIdPerSlot ==
    GateCalled /\ query_id = 1 /\ Accepted =>
        IF mode = "VARIABLES"
        THEN page.variable_id = 1 /\ page.variable_valid
        ELSE \/ page.switch1_id = 1 /\ page.switch1_valid
             \/ page.switch2_id = 1 /\ page.switch2_valid

(* The references stored in the map results and the common-event results. *)
StoredIn(container) ==
    UNION {{container[k][i] : i \in 1 .. Len(container[k])} : k \in DOMAIN container}

Stored == StoredIn(results) \cup StoredIn(common_event_results)

(* C6: Findings are immutable once appended: the access kind, the active    *)
(* flag, the line number and the rendered description of a stored Finding   *)
(* are never changed by a later command, page, event or by rendering.       *)
C6_FindingsImmutable ==
    [][\A ref \in Stored :
          /\ heap'[ref].access_type = heap[ref].access_type
          /\ heap'[ref].active = heap[ref].active
          /\ heap'[ref].line_number = heap[ref].line_number
          /\ heap'[ref].formatted_action = heap[ref].formatted_action]_vars

(* C7: every Finding stored in the map results or the common-event results  *)
(* at the end of scrape() has access kind READ, WRITE or READWRITE, never   *)
(* NONE.                                                                    *)
C7_StoredAccessKind ==
    pc = "done" => \A ref \in Stored : heap[ref].access_type \in {"READ", "WRITE", "READWRITE"}

(* C8: a Control Variable command yields a Finding only if it is related to *)
(* the query id: CONSTANT or RANDOM with q in range, VARIABLE with source = *)
(* q or q in range, SCRIPT with a matching text; never for GAME_DATA, for   *)
(* an operand code outside the enumeration, or in SWITCHES mode.            *)
C8_ControlVariableRelated ==
    MatcherCalled /\ command.code = CONTROL_VARIABLE /\ UintAt({0, 1, 3}) /\ Accepted =>
        /\ mode = "VARIABLES"
        /\ \/ P(3).v \in {Operand_CONSTANT, Operand_RANDOM} /\ InRange(P(0).v, P(1).v)
           \/ /\ P(3).v = Operand_VARIABLE /\ UintAt({4})
              /\ (P(4).v = query_id \/ InRange(P(0).v, P(1).v))
           \/ /\ P(3).v = Operand_SCRIPT /\ NumParams >= 5 /\ P(4).t = "string"
              /\ (find(P(4).v, ReadPattern) \/ find(P(4).v, WritePattern))

(* C9: Conditional Branch, VARIABLE variant (5 parameters, VARIABLES mode): *)
(* a Finding is produced iff compare-kind = CONSTANT and id = q, or         *)
(* compare-kind = VARIABLE and id = q and comparand = q; it is READ and     *)
(* active.                                                                  *)
C9_IfVariableVariant ==
    /\ MatcherCalled /\ mode = "VARIABLES" /\ command.code = IF_STATEMENT
    /\ NumParams = 5 /\ UintAt(0 .. 4) /\ P(0).v = IDType_VARIABLE
    =>
    /\ Accepted <=> \/ P(2).v = CompareType_CONSTANT /\ P(1).v = query_id
                    \/ P(2).v = CompareType_VARIABLE /\ P(1).v = query_id /\ P(3).v = query_id
    /\ Accepted => Finding.access_type = "READ" /\ Finding.active

(* C10: mode isolation.  In VARIABLES mode a SWITCH-variant Conditional     *)
(* Branch and every Control Switch produce no Finding; in SWITCHES mode a   *)
(* VARIABLE-variant branch produces none and a SWITCH-variant branch with 3 *)
(* parameters produces a READ, active Finding iff its switch id = q; only   *)
(* the SCRIPT variant can produce a Finding in both modes.                  *)
C10_IsSwitchBranch ==
    /\ MatcherCalled /\ command.code = IF_STATEMENT /\ UintAt({0}) /\ P(0).v = IDType_SWITCH

C10_ModeIsolation ==
    /\ C10_IsSwitchBranch /\ mode = "VARIABLES" => Declined
    /\ MatcherCalled /\ command.code = CONTROL_SWITCH /\ mode = "VARIABLES" => Declined
    /\ MatcherCalled /\ command.code = IF_STATEMENT /\ UintAt({0})
          /\ P(0).v = IDType_VARIABLE /\ mode = "SWITCHES" => Declined
    /\ C10_IsSwitchBranch /\ mode = "SWITCHES" /\ NumParams = 3 /\ UintAt({1, 2}) =>
          /\ Accepted <=> P(1).v = query_id
          /\ Accepted \/ Declined
          /\ Accepted => Finding.access_type = "READ" /\ Finding.active
    /\ MatcherCalled /\ command.code = IF_STATEMENT /\ Accepted /\ UintAt({0})
          /\ P(0).v # IDType_SCRIPT =>
          \/ mode = "VARIABLES" /\ P(0).v = IDType_VARIABLE
          \/ mode = "SWITCHES" /\ P(0).v = IDType_SWITCH /\ UintAt({1}) /\ P(1).v = query_id

C10_Witness ==
    /\ C10_IsSwitchBranch /\ mode = "SWITCHES" /\ NumParams = 3 /\ P(1).v = query_id
    /\ Accepted /\ Finding.access_type = "READ"

(* C11: Condition Gate in VARIABLES mode: a gate Finding is produced iff    *)
(* the condition's variable id = q (and, when q = 1, the validity flag is   *)
(* true); it is READ, active = the validity flag, and its description is    *)
(* `IF {name(q)} >= <threshold>:`.                                          *)
C11_IsCase == GateCalled /\ mode = "VARIABLES"

C11_GateVariables ==
    C11_IsCase =>
        /\ Accepted <=> /\ page.variable_id = query_id
                        /\ query_id = 1 => page.variable_valid
        /\ Accepted \/ Declined
        /\ Accepted =>
              /\ Finding.access_type = "READ"
              /\ Finding.active = page.variable_valid
              /\ Finding.formatted_action =
                    "IF {" \o ShownName(variable_names, query_id) \o "} >= "
                           \o Decimal(page.variable_value) \o ":"

C11_Witness ==
    /\ C11_IsCase /\ Accepted /\ query_id = 2 /\ page.variable_valid
    /\ page.variable_value = 10 /\ Finding.active
    /\ Finding.formatted_action = "IF {#2} >= 10:"

(* C12: Condition Gate in SWITCHES mode with q # 1: a Finding is produced   *)
(* iff slot 1's id = q or slot 2's id = q; it is READ, active = (slot 1     *)
(* valid or slot 2 valid); its description is `IF {a} && {b}:` with both    *)
(* slot names when both slots are valid and `IF {x}:` with the name of the  *)
(* single valid slot when exactly one is valid.                             *)
ShownSwitchName(id) ==
    IF id \in DOMAIN switch_names THEN ShownName(switch_names, id)
    ELSE "#" \o Decimal(id) \o " ?"

C12_IsCase == GateCalled /\ mode = "SWITCHES" /\ query_id # 1

C12_GateSwitches ==
    C12_IsCase =>
        LET a == ShownSwitchName(page.switch1_id)
            b == ShownSwitchName(page.switch2_id)
        IN
        /\ Accepted <=> (page.switch1_id = query_id \/ page.switch2_id = query_id)
        /\ Accepted \/ Declined
        /\ Accepted =>
              /\ Finding.access_type = "READ"
              /\ Finding.active = (page.switch1_valid \/ page.switch2_valid)
              /\ page.switch1_valid /\ page.switch2_valid =>
                    Finding.formatted_action = "IF {" \o a \o "} && {" \o b \o "}:"
              /\ page.switch1_valid /\ ~page.switch2_valid =>
                    Finding.formatted_action = "IF {" \o a \o "}:"
              /\ ~page.switch1_valid /\ page.switch2_valid =>
                    Finding.formatted_action = "IF {" \o b \o "}:"

C12_Witness ==
    /\ C12_IsCase /\ Accepted /\ query_id = 2 /\ page.switch1_id = 3 /\ page.switch2_id = 2
    /\ page.switch1_valid /\ page.switch2_valid
    /\ Finding.formatted_action = "IF {#3 ?} && {N2}:"

(* C13: query fault ordering.  In VARIABLES mode, when the query id is 0 or *)
(* absent from the variable name table, load() raises a fatal error after   *)
(* the name tables are populated and before scrape_maps() or                *)
(* scrape_common_events(); scrape() and print_results() never run and the   *)
(* run ends with zero Findings.                                             *)
C13_IsCase ==
    /\ mode = "VARIABLES" /\ pc # "load"
    /\ missing \cap {"data", "MapInfos.json", "System.json"} = {}
    /\ (query_id = 0 \/ query_id \notin DOMAIN variable_names)

C13_QueryFaultOrdering ==
    C13_IsCase =>
        /\ pc = "caught" /\ fault = "invalid variable id"
        /\ load_steps = <<"setup_directory", "populate_map_names", "populate_names">>
        /\ pages_read = 0 /\ lines_read = 0 /\ common_read = 0
        /\ heap = <<>> /\ results = <<>> /\ common_event_results = <<>>

C13_Witness ==
    /\ C13_IsCase /\ pc = "caught" /\ query_id = 2 /\ variable_names = GapNames
    /\ fault = "invalid variable id"

(* C14: setup faults are fatal.  If the data directory, MapInfos.json,      *)
(* System.json or CommonEvents.json is missing or unreadable, load() aborts *)
(* with a fatal error before any scan and scrape() is never run.            *)
C14_SetupFaultsFatal ==
    missing # {} /\ pc # "load" =>
        /\ pc = "caught" /\ fault # "none"
        /\ pages_read = 0 /\ lines_read = 0 /\ heap = <<>>

(* C15: an unknown switch id is never fatal.  In SWITCHES mode, for every   *)
(* query id and every switch name table, the empty one included,            *)
(* get_switch_name returns a name and load() does not abort on the query-id *)
(* check.                                                                   *)
C15_UnknownSwitchNeverFatal ==
    mode = "SWITCHES" /\ pc # "load" =>
        /\ fault # "invalid switch id"
        /\ missing \cap {"data", "MapInfos.json", "System.json"} = {} =>
              \A id \in Ids : get_switch_name(id) = <<ShownSwitchName(id)>>

(* C16: variable name lookup.  get_variable_name(0) is NotFound for every   *)
(* table, also when position 0 holds a name; for id > 0 it is NotFound      *)
(* exactly when the id has no entry; a present entry with an empty name     *)
(* yields `#<id>`; a present non-empty name is returned unchanged.          *)
C16_VariableNameLookup ==
    \A id \in 0 .. MaxId + 1 :
        LET found == get_variable_name(id) IN
        /\ id = 0 => found = <<>>
        /\ id > 0 => (found = <<>> <=> id \notin DOMAIN variable_names)
        /\ id > 0 /\ id \in DOMAIN variable_names =>
              IF variable_names[id] = "" THEN found = <<"#" \o Decimal(id)>>
              ELSE found = <<variable_names[id]>>

C16_Witness ==
    /\ pc = "maps" /\ 0 \in DOMAIN variable_names /\ variable_names[0] # ""
    /\ variable_names[2] = "" /\ get_variable_name(2) = <<"#2">>
    /\ get_variable_name(0) = <<>> /\ get_variable_name(MaxId + 1) = <<>>
    /\ get_variable_name(1) = <<"N1">>

(* C17: result ordering.  In every container's list of the finished run    *)
(* the entries stand in discovery order: of two entries of one page (of    *)
(* one common event) the earlier one is the gate Finding, which carries no *)
(* line number, or a command Finding of a smaller line number than the     *)
(* later one; pages of one event ascend.                                   *)
InDiscoveryOrder(a, b) ==
    \/ a.line_number = <<>> /\ b.line_number # <<>>
    \/ /\ a.line_number # <<>> /\ b.line_number # <<>>
       /\ a.line_number[1] < b.line_number[1]

C17_DiscoveryOrder ==
    pc = "done" =>
        /\ \A k \in DOMAIN results : \A i, j \in 1 .. Len(results[k]) :
              LET a == heap[results[k][i]]
                  b == heap[results[k][j]] IN
              i < j /\ a.event_id = b.event_id =>
                 /\ a.event_page <= b.event_page
                 /\ a.event_page = b.event_page => InDiscoveryOrder(a, b)
        /\ \A k \in DOMAIN common_event_results :
              \A i, j \in 1 .. Len(common_event_results[k]) :
                 i < j => InDiscoveryOrder(heap[common_event_results[k][i]],
                                           heap[common_event_results[k][j]])

(* C18: each command contributes at most one Finding and each page at most *)
(* one gate Finding.  No command satisfies two opcode predicates; a step   *)
(* of scrape() that tries a page gate, a trigger gate or a command adds    *)
(* exactly one entry to the list of the container being read when the      *)
(* matcher accepted and none otherwise, and leaves every other list as it  *)
(* was; hence there are never more entries than gates and commands read.   *)
RECURSIVE SumLen(_)
SumLen(container) ==
    IF DOMAIN container = {} THEN 0
    ELSE LET k == CHOOSE x \in DOMAIN container : TRUE IN
         Len(container[k]) + SumLen([j \in DOMAIN container \ {k} |-> container[j]])

LenAt(container, k) == IF k \in DOMAIN container THEN Len(container[k]) ELSE 0

OpcodePredicates(cmd) ==
    {p \in {"if", "cv", "cs", "script"} :
        \/ p = "if" /\ is_if_statement(cmd)
        \/ p = "cv" /\ is_control_variable(cmd)
        \/ p = "cs" /\ is_control_switch(cmd)
        \/ p = "script" /\ is_script(cmd)}

GrowsBy(old, new, key, n) ==
    /\ DOMAIN old \subseteq DOMAIN new
    /\ \A k \in DOMAIN new :
          /\ LenAt(new, k) = LenAt(old, k) + (IF k = key THEN n ELSE 0)
          /\ \A i \in 1 .. LenAt(old, k) : new[k][i] = old[k][i]

OneFindingPerStep ==
    /\ pc = "maps" /\ (pages_read' # pages_read \/ lines_read' # lines_read) =>
          /\ GrowsBy(results, results', map_id', IF outcome' = "accept" THEN 1 ELSE 0)
          /\ common_event_results' = common_event_results
    /\ pc = "common" /\ (common_read' # common_read \/ lines_read' # lines_read) =>
          /\ GrowsBy(common_event_results, common_event_results', common_event'.id,
                     IF outcome' = "accept" THEN 1 ELSE 0)
          /\ results' = results

C18_OneFindingEach ==
    /\ [](\A code \in {c.code : c \in PassCommands} :
             Cardinality(OpcodePredicates(Cmd(code, <<>>))) <= 1)
    /\ [](SumLen(results) + SumLen(common_event_results)
             <= pages_read + common_read + lines_read)
    /\ [][OneFindingPerStep]_vars

C18_Witness ==
    /\ pc = "maps" /\ pages_read = 1 /\ lines_read = 2 /\ outcome = "decline"
    /\ map_id \in DOMAIN results /\ Len(results[map_id]) = 2

(* C20: rendering is pure.  print_results() at the end of scrape() leaves  *)
(* every stored Finding as it was, the name included, so afterwards every  *)
(* common-event Finding still carries the name of the common event that    *)
(* owns it.                                                                *)
C20_RenderingPure ==
    [][pc = "common" /\ pc' = "done" =>
          /\ \A ref \in Stored : heap'[ref] = heap[ref]
          /\ \A k \in DOMAIN common_event_results :
                \A i \in 1 .. Len(common_event_results[k]) :
                   heap'[common_event_results[k][i]].name = "CE" \o ToString(k)]_vars

(* C21: Control Variable rendering.  For an accepted Control Variable      *)
(* command with CONSTANT or VARIABLE operand whose ids all have a name,    *)
(* the description is target, the symbol of the operation code (3rd        *)
(* parameter) under {0:"=", 1:"+=", 2:"-=", 3:"*=", 4:"/=", 5:"%="}, and   *)
(* the constant or the source variable's name; the target is {name(start)} *)
(* when start = end and {name(start)} .. {name(end)} otherwise.            *)
Named(id) == id > 0 /\ id \in DOMAIN variable_names

OperationSymbol(code) == <<"=", "+=", "-=", "*=", "/=", "%=">>[code + 1]

VariableTarget(start, end) ==
    IF start = end THEN "{" \o ShownName(variable_names, start) \o "}"
    ELSE "{" \o ShownName(variable_names, start) \o "} .. {"
             \o ShownName(variable_names, end) \o "}"

C21_IsCase ==
    /\ MatcherCalled /\ mode = "VARIABLES" /\ command.code = CONTROL_VARIABLE
    /\ NumParams = 5 /\ UintAt(0 .. 4) /\ Accepted
    /\ P(3).v \in {Operand_CONSTANT, Operand_VARIABLE} /\ P(2).v \in 0 .. 5
    /\ Named(P(0).v) /\ Named(P(1).v)
    /\ P(3).v = Operand_VARIABLE => Named(P(4).v)

C21_ControlVariableRendering ==
    C21_IsCase =>
        Finding.formatted_action =
            VariableTarget(P(0).v, P(1).v) \o " " \o OperationSymbol(P(2).v) \o " "
            \o (IF P(3).v = Operand_CONSTANT THEN Decimal(P(4).v)
                ELSE "{" \o ShownName(variable_names, P(4).v) \o "}")

(* C22: Control Switch classification and rendering.  In SWITCHES mode an  *)
(* accepted Control Switch command has exactly 3 parameters and q in       *)
(* [start,end]; its Finding is WRITE and active; the description is the    *)
(* target, {name(start)} for start = end and {name(start)} .. {name(end)}  *)
(* otherwise, followed by ` = ON` when the value parameter is 0 and by     *)
(* ` = OFF` when it is nonzero.                                            *)
SwitchTarget(start, end) ==
    IF start = end THEN "{" \o ShownSwitchName(start) \o "}"
    ELSE "{" \o ShownSwitchName(start) \o "} .. {" \o ShownSwitchName(end) \o "}"

C22_IsCase ==
    MatcherCalled /\ mode = "SWITCHES" /\ command.code = CONTROL_SWITCH /\ Accepted

C22_ControlSwitch ==
    C22_IsCase =>
        /\ NumParams = 3 /\ UintAt(0 .. 2) /\ InRange(P(0).v, P(1).v)
        /\ Finding.access_type = "WRITE" /\ Finding.active
        /\ Finding.formatted_action =
              SwitchTarget(P(0).v, P(1).v) \o (IF P(2).v = 0 THEN " = ON" ELSE " = OFF")

C22_Witness ==
    /\ C22_IsCase /\ query_id = 2 /\ P(0).v = 1 /\ P(1).v = 3 /\ P(2).v = 1
    /\ Finding.formatted_action = "{N1} .. {N3} = OFF"

(* C23: Script Matcher.  For a script command with one string parameter    *)
(* the result is READ if the text contains the mode's read accessor for q, *)
(* whether or not it contains the write mutator too; otherwise WRITE if it *)
(* contains the mode's write mutator for q; otherwise the command is       *)
(* declined and the record is untouched.  A text holding only the other    *)
(* mode's accessor or mutator is declined.  An accepted match is active    *)
(* and carries the script text as description.                             *)
Contains(text, pat) ==
    \E i \in 0 .. Len(text) - Len(pat) : \A j \in 1 .. Len(pat) : text[i + j] = pat[j]

ReadAccessor(m, q) ==
    <<IF m = "VARIABLES" THEN "$gameVariables.value(" ELSE "$gameSwitches.value(">>
    \o Digits(q) \o <<")">>

WriteMutator(m, q) ==
    <<IF m = "VARIABLES" THEN "$gameVariables.setValue(" ELSE "$gameSwitches.setValue(">>
    \o Digits(q)

OtherMode == IF mode = "VARIABLES" THEN "SWITCHES" ELSE "VARIABLES"

C23_IsCase ==
    /\ MatcherCalled /\ command.code \in {SCRIPT_SINGLE_LINE, SCRIPT_MULTI_LINE}
    /\ NumParams = 1 /\ P(0).t = "string"

C23_ScriptMatcher ==
    C23_IsCase =>
        LET text   == P(0).v
            reads  == Contains(text, ReadAccessor(mode, query_id))
            writes == Contains(text, WriteMutator(mode, query_id))
        IN
        /\ reads \/ writes =>
              /\ Accepted /\ Finding.active
              /\ Finding.access_type = IF reads THEN "READ" ELSE "WRITE"
              /\ Finding.formatted_action = Join(text)
        /\ ~reads /\ ~writes => Declined /\ Finding = FreshResult
        /\ text \in {ReadAccessor(OtherMode, query_id),
                      WriteMutator(OtherMode, query_id) \o <<",", "1", ")">>,
                      WriteMutator(OtherMode, query_id) \o <<",", "true", ")">>}
              => Declined

C23_Witness ==
    /\ C23_IsCase /\ mode = "VARIABLES" /\ query_id = 2
    /\ P(0).v = WriteV(2) \o <<";">> \o ReadV(2)
    /\ Accepted /\ Finding.access_type = "READ"
    /\ Finding.formatted_action = "$gameVariables.setValue(2,1);$gameVariables.value(2)"

(* C24: Common-Event Trigger Gate.  When scrape() comes to a common event, *)
(* exactly one Finding (READ, active, no line number, description          *)
(* `HAS TRIGGER: (AUTORUN)` or `HAS TRIGGER: (PARALLEL)` after its         *)
(* trigger) is appended under the common event's id if the mode is         *)
(* SWITCHES, the trigger is not NONE and the gating switch id equals q;    *)
(* in every other case, trigger NONE with switch id q and VARIABLES mode   *)
(* included, nothing is appended and no record is written.                 *)
TriggerGateStep ==
    common_read' # common_read =>
        LET ce  == common_event'
            hit == mode = "SWITCHES" /\ ce.trigger # Trigger_NONE /\ ce.switch_id = query_id
        IN
        /\ results' = results
        /\ GrowsBy(common_event_results, common_event_results', ce.id, IF hit THEN 1 ELSE 0)
        /\ ~hit => heap' = heap
        /\ hit =>
              LET list == common_event_results'[ce.id]
                  f    == heap'[list[Len(list)]]
              IN
              /\ f.access_type = "READ" /\ f.active /\ f.line_number = <<>>
              /\ f.name = ce.name
              /\ ce.trigger = Trigger_AUTORUN => f.formatted_action = "HAS TRIGGER: (AUTORUN)"
              /\ ce.trigger = Trigger_PARALLEL => f.formatted_action = "HAS TRIGGER: (PARALLEL)"
              /\ \A ref \in DOMAIN heap : heap'[ref] = heap[ref]

C24_TriggerGate == [][TriggerGateStep]_vars

C24_Witness ==
    /\ pc = "common" /\ mode = "SWITCHES" /\ common_read = 2 /\ line_num = 0
    /\ common_event.trigger = Trigger_PARALLEL /\ common_event.switch_id = query_id
    /\ DOMAIN common_event_results = {2}
    /\ heap[common_event_results[2][1]].formatted_action = "HAS TRIGGER: (PARALLEL)"

(* C25: Conditional Branch operator handling.  A VARIABLE-variant branch   *)
(* (5 parameters) on the query id is accepted whatever its operator code;  *)
(* an accepted one is READ and active; operator codes 0..5 are rendered    *)
(* "=", ">=", "<=", ">", "<", "!=" between the two operands, and every     *)
(* operator code >= 6 gives the description `malformed operator`.          *)
ComparisonSymbol(code) ==
    CASE code = 0 -> "=" [] code = 1 -> ">=" [] code = 2 -> "<="
      [] code = 3 -> ">" [] code = 4 -> "<"  [] code = 5 -> "!="

C25_IsCase ==
    /\ MatcherCalled /\ mode = "VARIABLES" /\ command.code = IF_STATEMENT
    /\ NumParams = 5 /\ UintAt(0 .. 4) /\ P(0).v = IDType_VARIABLE

C25_OperatorHandling ==
    C25_IsCase =>
        LET id == P(1).v
            ct == P(2).v
            compared == P(3).v
            oper == P(4).v
            q  == ShownName(variable_names, query_id)
        IN
        /\ (\/ ct = CompareType_CONSTANT /\ id = query_id
            \/ ct = CompareType_VARIABLE /\ id = query_id /\ compared = query_id)
              => Accepted
        /\ Accepted =>
              /\ Finding.access_type = "READ" /\ Finding.active
              /\ oper >= 6 => Finding.formatted_action = "malformed operator"
              /\ oper <= 5 =>
                    Finding.formatted_action =
                        IF ct = CompareType_VARIABLE /\ compared = query_id
                        THEN "If: {#" \o Decimal(id) \o "} " \o ComparisonSymbol(oper)
                             \o " {" \o q \o "}:"
                        ELSE "If: {" \o q \o "} " \o ComparisonSymbol(oper) \o " "
                             \o Decimal(compared) \o ":"

C25_Witness ==
    /\ C25_IsCase /\ Accepted /\ P(4).v = 6 /\ P(2).v = CompareType_CONSTANT
    /\ P(1).v = query_id /\ Finding.formatted_action = "malformed operator"
    /\ Finding.access_type = "READ" /\ Finding.active

(* C26: parameter decoding.  Each integer, float, boolean or string        *)
(* parameter of a command's JSON decodes to one element, in the order of   *)
(* the source: an integer to the integer tag, a float to the float tag, a  *)
(* boolean to the boolean tag, a string of exactly one character to the    *)
(* single-character tag and any other string to the string tag.  A script *)
(* command whose only parameter is a one-character string produces no      *)
(* Finding and does not raise.                                             *)
IsTagged(parameter) == parameter.t \in {"integer", "float", "boolean", "string"}

OneCharacter(parameter) == parameter.t = "string" /\ Len(Join(parameter.v)) = 1

C26_IsCase ==
    /\ MatcherCalled /\ json # <<>>
    /\ "code" \in DOMAIN json[1] /\ json[1]["code"].t = "integer"
    /\ "parameters" \in DOMAIN json[1]

C26_ParameterDecoding ==
    C26_IsCase =>
        LET source == SelectSeq(json[1]["parameters"], IsTagged) IN
        /\ command.code = json[1]["code"].v
        /\ Len(command.parameters) = Len(source)
        /\ \A i \in 1 .. Len(source) :
              LET parameter == source[i]
                  element   == command.parameters[i]
              IN
              /\ parameter.t = "integer" => element = [t |-> "uint", v |-> parameter.v]
              /\ parameter.t = "float" => element = [t |-> "double", v |-> parameter.v]
              /\ parameter.t = "boolean" => element = [t |-> "bool", v |-> parameter.v]
              /\ OneCharacter(parameter) =>
                    element = [t |-> "char", v |-> Join(parameter.v)]
              /\ parameter.t = "string" /\ ~OneCharacter(parameter) =>
                    element = [t |-> "string", v |-> parameter.v]
        /\ (/\ command.code \in {SCRIPT_SINGLE_LINE, SCRIPT_MULTI_LINE}
            /\ Len(json[1]["parameters"]) = 1
            /\ OneCharacter(json[1]["parameters"][1]))
              => Declined /\ Finding = FreshResult

C26_Witness ==
    /\ C26_IsCase /\ command.code = SCRIPT_MULTI_LINE
    /\ json[1]["parameters"] = <<JString(<<"x">>)>>
    /\ command.parameters = <<C("x")>> /\ Declined

(* C27: a record that fails decoding contributes no Finding.  A command    *)
(* whose JSON lacks `code` or `parameters` is left as the default command  *)
(* and is declined; a page whose JSON lacks `conditions` or `list`, or     *)
(* whose condition lacks one of its seven fields, is left with the default *)
(* condition and its Condition Gate declines, for every mode and every     *)
(* query id load() accepts.                                                *)
ConditionFields ==
    {"switch1Id", "switch1Valid", "switch2Id", "switch2Valid",
     "variableId", "variableValid", "variableValue"}

LacksField(j, fields) == ~(fields \subseteq DOMAIN j)

C27_IsCommandCase ==
    MatcherCalled /\ json # <<>> /\ LacksField(json[1], {"code", "parameters"})

C27_IsPageCase ==
    /\ GateCalled /\ json # <<>>
    /\ \/ LacksField(json[1], {"conditions", "list"})
       \/ LacksField(json[1]["conditions"], ConditionFields)

C27_UndecodableNoFinding ==
    /\ C27_IsCommandCase => command = NoCommand /\ Declined
    /\ C27_IsPageCase => page = NoCondition /\ Declined

(* C28: line numbers identify the producing command.  The entry a step of  *)
(* scrape() appends carries the 1-based position of the command that       *)
(* produced it, or no line number when a Condition Gate or Trigger Gate    *)
(* produced it, and every entry keeps its line number from then on, also   *)
(* when the same page has accepted commands after its gate.                *)
LineOfStep ==
    IF pages_read' # pages_read \/ common_read' # common_read THEN <<>> ELSE <<line_num'>>

LinesKept(old, new) ==
    \A k \in DOMAIN new : \A i \in 1 .. Len(new[k]) :
        heap'[new[k][i]].line_number =
            IF i <= LenAt(old, k) THEN heap[old[k][i]].line_number ELSE LineOfStep

C28_LineNumbers ==
    [][/\ LinesKept(results, results')
       /\ LinesKept(common_event_results, common_event_results')]_vars

(* C29: the Script Matcher reports a write only for the query id itself.   *)
(* A script text whose only call reads or sets the id 10*q, whose decimal  *)
(* form starts with the digits of q, produces no Finding for q.            *)
C29_IsCase ==
    /\ C23_IsCase /\ query_id > 0
    /\ P(0).v \in {ReadV(10 * query_id), WriteV(10 * query_id),
                    ReadS(10 * query_id), WriteS(10 * query_id)}

C29_WriteOnlyForQueryId == C29_IsCase => Declined /\ Finding = FreshResult

(* C30: rendering an accepted command never dereferences a missing name.   *)
(* In VARIABLES mode every Control Variable command that concerns the      *)
(* query id (CONSTANT or VARIABLE operand with 5 parameters, RANDOM with   *)
(* 6) is accepted, and each name its description is built from, that of    *)
(* the range start, of the range end when it differs, and of the source    *)
(* variable for a VARIABLE operand, is present in the name table.          *)
C30_IsCase ==
    /\ MatcherCalled /\ mode = "VARIABLES" /\ command.code = CONTROL_VARIABLE
    /\ UintAt(0 .. NumParams - 1)
    /\ \/ NumParams = 5 /\ P(3).v \in {Operand_CONSTANT, Operand_VARIABLE}
       \/ NumParams = 6 /\ P(3).v = Operand_RANDOM
    /\ \/ InRange(P(0).v, P(1).v)
       \/ P(3).v = Operand_VARIABLE /\ P(4).v = query_id

C30_NoMissingNameRead ==
    C30_IsCase =>
        /\ Accepted
        /\ get_variable_name(P(0).v) # <<>>
        /\ P(0).v # P(1).v => get_variable_name(P(1).v) # <<>>
        /\ P(3).v = Operand_VARIABLE => get_variable_name(P(4).v) # <<>>

====
